---- MODULE Spec2Model ----
(***************************************************************************)
(* Model of the unit-expression parser of nubivis (source/parser.h,        *)
(* source/parser.cpp): the tokenizer TokenStream, the algebra Factors, the *)
(* recursive-descent Parser and the process-wide tables SIUNITS,           *)
(* NONSIUNITS and PREFIXES.                                                *)
(*                                                                         *)
(* Text is a sequence of bytes, one string per byte ("k", "0xCE", ...),    *)
(* because the tokenizer reads std::string one char at a time.  A Token, a *)
(* map key and the unread expression are such sequences.                   *)
(*                                                                         *)
(* A Fraction (boost cpp_rational) that is only multiplied, divided,       *)
(* negated and compared (multiplier, offset) is kept in factored form:     *)
(* sign, exponent of every generator, and exponent of every value obtained *)
(* from std::pow.  The generators are the primes of the exact table values *)
(* and of the numeric literals, and one generator for every double literal *)
(* of the tables that is not an integer; that generator is named by the    *)
(* literal and stands for the exact value of the double.  These generators *)
(* are multiplicatively independent, so two factored forms are equal       *)
(* exactly when the rationals are.  A Fraction that is added (a dimension  *)
(* exponent) is a reduced pair <<numerator, denominator>>.  A value that   *)
(* std::pow returned is carried as the term (base, exponent) it came from: *)
(* equal terms are equal values, and nothing else is assumed of them.      *)
(*                                                                         *)
(* The code reads NONSIUNITS and PREFIXES with find() and with operator[]  *)
(* on keys that find() found, so they are the tables of the source.  Its   *)
(* one write to SIUNITS is the operator[] of Parser::get_unit, which adds  *)
(* a key with a default Factors; the state keeps the set of added keys.    *)
(***************************************************************************)
EXTENDS Integers, Sequences, FiniteSets, TLC

(* ---------------------------- bounds ----------------------------------- *)
MaxCalls == 2

(* ----------------------- program constants ----------------------------- *)
LENMAXINT == 2
LENMAXSTR == 128

(* -------------------- Fraction: reduced pairs -------------------------- *)
Abs(i) == IF i < 0 THEN -i ELSE i

RECURSIVE GCD(_, _)
GCD(a, b) == IF b = 0 THEN a ELSE GCD(b, a % b)

Rat(n, d) ==
    LET g == GCD(Abs(n), Abs(d))
        s == IF d < 0 THEN -1 ELSE 1
    IN  <<(s * n) \div g, (s * d) \div g>>

Int2Rat(i) == <<i, 1>>

RatAdd(a, b) == Rat(a[1] * b[2] + b[1] * a[2], a[2] * b[2])

RatSub(a, b) == Rat(a[1] * b[2] - b[1] * a[2], a[2] * b[2])

RatMul(a, b) == Rat(a[1] * b[1], a[2] * b[2])

(* -------------------- Fraction: factored form -------------------------- *)
EmptyExp == [g \in {} |-> 0]

ExpAdd(f, g) ==
    LET E(k) == (IF k \in DOMAIN f THEN f[k] ELSE 0)
                + (IF k \in DOMAIN g THEN g[k] ELSE 0)
    IN  [k \in {j \in DOMAIN f \cup DOMAIN g : E(j) # 0} |-> E(k)]

ExpNeg(f) == [k \in DOMAIN f |-> -f[k]]

Mono(m) == [sgn |-> 1, mag |-> m, fl |-> EmptyExp]

One == Mono(EmptyExp)

Zero == [sgn |-> 0, mag |-> EmptyExp, fl |-> EmptyExp]

Dbl(lit) == Mono(lit :> 1)

FracMul(a, b) ==
    IF a.sgn = 0 \/ b.sgn = 0 THEN Zero
    ELSE [sgn |-> a.sgn * b.sgn, mag |-> ExpAdd(a.mag, b.mag),
          fl |-> ExpAdd(a.fl, b.fl)]

FracDiv(a, b) ==
    IF a.sgn = 0 THEN Zero
    ELSE [sgn |-> a.sgn * b.sgn, mag |-> ExpAdd(a.mag, ExpNeg(b.mag)),
          fl |-> ExpAdd(a.fl, ExpNeg(b.fl))]

FracNeg(a) == [a EXCEPT !.sgn = -a.sgn]

Primes == {2, 3, 5, 7, 11, 13, 17, 19, 23, 29, 31, 37, 41, 43, 47, 53, 59,
           61, 67, 71, 73, 79, 83, 89, 97}

RECURSIVE Multiplicity(_, _)
Multiplicity(p, n) == IF n % p = 0 THEN 1 + Multiplicity(p, n \div p) ELSE 0

RECURSIVE Power(_, _)
Power(b, e) == IF e = 0 THEN 1 ELSE b * Power(b, e - 1)

RECURSIVE Product(_)
Product(f) ==
    IF DOMAIN f = {} THEN 1
    ELSE LET x == CHOOSE y \in DOMAIN f : TRUE
         IN  f[x] * Product([y \in DOMAIN f \ {x} |-> f[y]])

IntToFrac(n) ==
    IF n = 0 THEN Zero
    ELSE LET P == {p \in Primes : n % p = 0}
         IN  Mono([g \in {ToString(p) : p \in P} |->
                     Multiplicity(CHOOSE p \in P : ToString(p) = g, n)])

FracToRat(x) ==
    LET P == {p \in Primes : ToString(p) \in DOMAIN x.mag}
        e(p) == x.mag[ToString(p)]
        num == [p \in P |-> IF e(p) > 0 THEN Power(p, e(p)) ELSE 1]
        den == [p \in P |-> IF e(p) < 0 THEN Power(p, -e(p)) ELSE 1]
    IN  IF x.sgn = 0 THEN <<0, 1>>
        ELSE <<x.sgn * Product(num), Product(den)>>

FloatPow(x, y) ==
    IF y = <<0, 1>> \/ x = One THEN One
    ELSE [sgn |-> 1, mag |-> EmptyExp, fl |-> [x |-> x, y |-> y] :> 1]

(* ------------------------------ Factors -------------------------------- *)
Factors(multiplier, offset, m, kg, s, A, K, mol, cd) ==
    [multiplier |-> multiplier, offset |-> offset,
     m |-> Int2Rat(m), kg |-> Int2Rat(kg), s |-> Int2Rat(s),
     A |-> Int2Rat(A), K |-> Int2Rat(K), mol |-> Int2Rat(mol),
     cd |-> Int2Rat(cd)]

Factors0 == Factors(One, Zero, 0, 0, 0, 0, 0, 0, 0)

(* ----------------------------- the tables ------------------------------ *)
SIUNITS0 ==
    (<<"m">> :> Factors(One, Zero, 1, 0, 0, 0, 0, 0, 0))
    @@ (<<"k", "g">> :> Factors(One, Zero, 0, 1, 0, 0, 0, 0, 0))
    @@ (<<"g">> :> Factors(Mono(("2" :> -3) @@ ("5" :> -3)), Zero, 0, 1, 0, 0, 0, 0, 0))
    @@ (<<"s">> :> Factors(One, Zero, 0, 0, 1, 0, 0, 0, 0))
    @@ (<<"A">> :> Factors(One, Zero, 0, 0, 0, 1, 0, 0, 0))
    @@ (<<"K">> :> Factors(One, Zero, 0, 0, 0, 0, 1, 0, 0))
    @@ (<<"m", "o", "l">> :> Factors(One, Zero, 0, 0, 0, 0, 0, 1, 0))
    @@ (<<"c", "d">> :> Factors(One, Zero, 0, 0, 0, 0, 0, 0, 1))
    @@ (<<"r", "a", "d">> :> Factors0)
    @@ (<<"s", "r">> :> Factors0)
    @@ (<<"H", "z">> :> Factors(One, Zero, 0, 0, -1, 0, 0, 0, 0))
    @@ (<<"N">> :> Factors(One, Zero, 1, 1, -2, 0, 0, 0, 0))
    @@ (<<"P", "a">> :> Factors(One, Zero, -1, 1, -2, 0, 0, 0, 0))
    @@ (<<"J">> :> Factors(One, Zero, 2, 1, -2, 0, 0, 0, 0))
    @@ (<<"W">> :> Factors(One, Zero, 2, 1, -3, 0, 0, 0, 0))
    @@ (<<"C">> :> Factors(One, Zero, 0, 0, 1, 1, 0, 0, 0))
    @@ (<<"V">> :> Factors(One, Zero, 2, 1, -3, -1, 0, 0, 0))
    @@ (<<"F">> :> Factors(One, Zero, -2, -1, 4, 2, 0, 0, 0))
    @@ (<<"0xCE", "0xA9">> :> Factors(One, Zero, 2, 1, -3, -2, 0, 0, 0))
    @@ (<<"S">> :> Factors(One, Zero, -2, -1, -2, -1, 0, 0, 0))
    @@ (<<"W", "b">> :> Factors(One, Zero, 2, 1, -2, -1, 0, 0, 0))
    @@ (<<"T">> :> Factors(One, Zero, 0, 1, -2, -1, 0, 0, 0))
    @@ (<<"H">> :> Factors(One, Zero, 2, 1, -2, -2, 0, 0, 0))
    @@ (<<"d", "e", "g", "C">> :> Factors(One, Mono(("2" :> -2) @@ ("3" :> 2) @@ ("5" :> -1) @@ ("607" :> 1)), 0, 0, 0, 0, 1, 0, 0))
    @@ (<<"l", "m">> :> Factors(One, Zero, 0, 0, 0, 0, 0, 0, 1))
    @@ (<<"l", "x">> :> Factors(One, Zero, -2, 0, 0, 0, 0, 0, 1))
    @@ (<<"B", "q">> :> Factors(One, Zero, 0, 0, -1, 0, 0, 0, 0))
    @@ (<<"G", "y">> :> Factors(One, Zero, 2, 0, -2, 0, 0, 0, 0))
    @@ (<<"S", "v">> :> Factors(One, Zero, 2, 0, -2, 0, 0, 0, 0))
    @@ (<<"k", "a", "t">> :> Factors(One, Zero, 0, 0, -1, 0, 0, 1, 0))
    @@ (<<"L">> :> Factors(Mono(("2" :> -3) @@ ("5" :> -3)), Zero, 3, 0, 0, 0, 0, 0, 0))

NONSIUNITS ==
    (<<"0xE2", "0x84", "0xAB">> :> Factors(Mono(("2" :> -10) @@ ("5" :> -10)), One, 0, 0, 0, 0, 0, 0, 0))
    @@ (<<"u", "a">> :> Factors(Mono(("2" :> 5) @@ ("5" :> 5) @@ ("1495979" :> 1)), Zero, 1, 0, 0, 0, 0, 0, 0))
    @@ (<<"c", "h">> :> Factors(Dbl("2.011684e1"), Zero, 1, 0, 0, 0, 0, 0, 0))
    @@ (<<"f", "a", "t", "h", "o", "m">> :> Factors(Dbl("1.828804"), Zero, 1, 0, 0, 0, 0, 0, 0))
    @@ (<<"f", "e", "r", "m", "i">> :> Factors(Mono(("2" :> -15) @@ ("5" :> -15)), Zero, 1, 0, 0, 0, 0, 0, 0))
    @@ (<<"f", "t">> :> Factors(Dbl("3.048e-1"), Zero, 1, 0, 0, 0, 0, 0, 0))
    @@ (<<"i", "n">> :> Factors(Dbl("2.54e-2"), Zero, 1, 0, 0, 0, 0, 0, 0))
    @@ (<<"0xC2", "0xB5">> :> Factors(Mono(("2" :> -6) @@ ("5" :> -6)), Zero, 1, 0, 0, 0, 0, 0, 0))
    @@ (<<"m", "i", "l">> :> Factors(Mono(("2" :> -6) @@ ("5" :> -7) @@ ("127" :> 1)), Zero, 1, 0, 0, 0, 0, 0, 0))
    @@ (<<"m", "i">> :> Factors(Dbl("1.609344e3"), Zero, 1, 0, 0, 0, 0, 0, 0))
    @@ (<<"y", "d">> :> Factors(Dbl("9.144e-1"), Zero, 1, 0, 0, 0, 0, 0, 0))
    @@ (<<"o", "z">> :> Factors(Dbl("2.834952e-2"), Zero, 0, 1, 0, 0, 0, 0, 0))
    @@ (<<"l", "b">> :> Factors(Dbl("4.535924e-1"), Zero, 0, 1, 0, 0, 0, 0, 0))
    @@ (<<"d">> :> Factors(Mono(("2" :> 7) @@ ("3" :> 3) @@ ("5" :> 2)), Zero, 0, 0, 1, 0, 0, 0, 0))
    @@ (<<"h">> :> Factors(Mono(("2" :> 4) @@ ("3" :> 2) @@ ("5" :> 2)), Zero, 0, 0, 1, 0, 0, 0, 0))
    @@ (<<"m", "i", "n">> :> Factors(Mono(("2" :> 2) @@ ("3" :> 1) @@ ("5" :> 1)), Zero, 0, 0, 1, 0, 0, 0, 0))
    @@ (<<"d", "e", "g", "F">> :> Factors(Mono(("3" :> -2) @@ ("5" :> 1)), Dbl("459.67"), 0, 0, 0, 0, 1, 0, 0))
    @@ (<<"d", "e", "g", "R">> :> Factors(Mono(("3" :> -2) @@ ("5" :> 1)), Zero, 0, 0, 0, 0, 1, 0, 0))
    @@ (<<"B", "T", "U">> :> Factors(Dbl("1.05587e3"), Zero, 2, 1, -2, 0, 0, 0, 0))
    @@ (<<"c", "a", "l">> :> Factors(Dbl("4.19002"), Zero, 2, 1, -2, 0, 0, 0, 0))
    @@ (<<"e", "V">> :> Factors(Dbl("1.602176e-19"), Zero, 2, 1, -2, 0, 0, 0, 0))
    @@ (<<"l", "b", "f">> :> Factors(Dbl("4.448222"), Zero, 1, 1, -2, 0, 0, 0, 0))
    @@ (<<"h", "o", "r", "s", "e", "p", "o", "w", "e", "r">> :> Factors(Mono(("2" :> 1) @@ ("373" :> 1)), Zero, 2, 1, -3, 0, 0, 0, 0))
    @@ (<<"a", "t", "m">> :> Factors(Mono(("3" :> 1) @@ ("5" :> 2) @@ ("7" :> 1) @@ ("193" :> 1)), Zero, -1, 1, -2, 0, 0, 0, 0))
    @@ (<<"b", "a", "r">> :> Factors(Mono(("2" :> 5) @@ ("5" :> 5)), Zero, -1, 1, -2, 0, 0, 0, 0))
    @@ (<<"i", "n", "H", "g">> :> Factors(Dbl("3.386389e3"), Zero, -1, 1, -2, 0, 0, 0, 0))
    @@ (<<"p", "s", "i">> :> Factors(Dbl("6.894757"), Zero, -1, 1, -2, 0, 0, 0, 0))
    @@ (<<"t", "o", "r", "r">> :> Factors(Dbl("1.333224e2"), Zero, -1, 1, -2, 0, 0, 0, 0))
    @@ (<<"r", "a", "d">> :> Factors(Dbl("1e-2"), Zero, 2, 0, -2, 0, 0, 0, 0))
    @@ (<<"r", "e", "m">> :> Factors(Dbl("1e-2"), Zero, 2, 0, -2, 0, 0, 0, 0))
    @@ (<<"g", "a", "l">> :> Factors(Dbl("3.785412e-3"), Zero, 3, 0, 0, 0, 0, 0, 0))

PREFIXES ==
    (<<"P">> :> Mono(("2" :> 15) @@ ("5" :> 15)))
    @@ (<<"T">> :> Mono(("2" :> 12) @@ ("5" :> 12)))
    @@ (<<"G">> :> Mono(("2" :> 9) @@ ("5" :> 9)))
    @@ (<<"M">> :> Mono(("2" :> 6) @@ ("5" :> 6)))
    @@ (<<"k">> :> Mono(("2" :> 3) @@ ("5" :> 3)))
    @@ (<<"h">> :> Mono(("2" :> 2) @@ ("5" :> 2)))
    @@ (<<"d", "a">> :> Mono(("2" :> 1) @@ ("5" :> 1)))
    @@ (<<"d">> :> Mono(("2" :> -1) @@ ("5" :> -1)))
    @@ (<<"c">> :> Mono(("2" :> -2) @@ ("5" :> -2)))
    @@ (<<"m">> :> Mono(("2" :> -3) @@ ("5" :> -3)))
    @@ (<<"0xC2", "0xB5">> :> Mono(("2" :> -6) @@ ("5" :> -6)))
    @@ (<<"n">> :> Mono(("2" :> -9) @@ ("5" :> -9)))
    @@ (<<"p">> :> Mono(("2" :> -12) @@ ("5" :> -12)))
    @@ (<<"f">> :> Mono(("2" :> -15) @@ ("5" :> -15)))

NUMBERS == {<<"0">>, <<"1">>, <<"2">>, <<"3">>, <<"4">>, <<"5">>, <<"6">>,
            <<"7">>, <<"8">>, <<"9">>}

LETTERS ==
    {<<"a">>, <<"A">>, <<"B">>, <<"b">>, <<"c">>, <<"C">>,
     <<"d">>, <<"e">>, <<"E">>, <<"f">>, <<"F">>, <<"g">>,
     <<"G">>, <<"h">>, <<"H">>, <<"i">>, <<"k">>, <<"K">>,
     <<"l">>, <<"L">>, <<"m">>, <<"M">>, <<"0xC2", "0xB5">>, <<"n">>,
     <<"N">>, <<"o">>, <<"p">>, <<"P">>, <<"q">>, <<"r">>,
     <<"S">>, <<"s">>, <<"t">>, <<"T">>, <<"v">>, <<"V">>,
     <<"W">>, <<"x">>, <<"y">>, <<"Y">>, <<"z">>, <<"Z">>,
     <<"0xCE", "0xA9">>}

(* ----------------------------- Token ----------------------------------- *)
startswith(value, s) ==
    SubSeq(value, 1, IF Len(s) < Len(value) THEN Len(s) ELSE Len(value)) = s

isdecimal(value) == \A i \in 1..Len(value) : <<value[i]>> \in NUMBERS

(* std::string::substr(pos) and substr(0, len) for pos, len within reach *)
substr(value, pos) == SubSeq(value, pos + 1, Len(value))

substr0(value, len) ==
    SubSeq(value, 1, IF len < Len(value) THEN len ELSE Len(value))

(* Fraction(t.str()) of a string of decimal digits; the empty string is 0 *)
DigitValue(ch) ==
    CASE ch = "0" -> 0 [] ch = "1" -> 1 [] ch = "2" -> 2 [] ch = "3" -> 3
      [] ch = "4" -> 4 [] ch = "5" -> 5 [] ch = "6" -> 6 [] ch = "7" -> 7
      [] ch = "8" -> 8 [] ch = "9" -> 9

RECURSIVE DecimalValue(_)
DecimalValue(value) ==
    IF Len(value) = 0 THEN 0
    ELSE 10 * DecimalValue(SubSeq(value, 1, Len(value) - 1))
         + DigitValue(value[Len(value)])

FractionOfString(value) == IntToFrac(DecimalValue(value))

(* --------------------------- TokenStream ------------------------------- *)
ops == {<<"-">>, <<"+">>, <<"/">>, <<"(">>, <<")">>}

empty_token == <<>>

op_star == <<"*">>

(* outcome of a TokenStream call: the token, or the exception thrown, and  *)
(* the expression left in the stream                                       *)
Tok(t, expression) == [err |-> "", t |-> t, expression |-> expression]

TokThrow(expression) ==
    [err |-> "TokenError", t |-> empty_token, expression |-> expression]

putback(t, expression) == t \o expression

RECURSIVE get_numbers(_, _)
get_numbers(t, expression) ==
    IF Len(expression) = 0 THEN Tok(t, expression)
    ELSE LET ch == <<expression[1]>>
             rest == Tail(expression)
         IN  IF ch \notin NUMBERS THEN Tok(t, putback(ch, rest))
             ELSE IF Len(t \o ch) > LENMAXINT THEN TokThrow(rest)
             ELSE get_numbers(t \o ch, rest)

RECURSIVE get_letters(_, _)
get_letters(t, expression) ==
    IF Len(expression) = 0 THEN Tok(t, expression)
    ELSE LET ch == <<expression[1]>>
             rest == Tail(expression)
         IN  IF ch \notin LETTERS THEN Tok(t, putback(ch, rest))
             ELSE IF Len(t \o ch) > LENMAXSTR THEN TokThrow(rest)
             ELSE get_letters(t \o ch, rest)

get(expression) ==
    IF Len(expression) = 0 THEN Tok(empty_token, expression)
    ELSE LET ch == <<expression[1]>>
             rest == Tail(expression)
         IN  IF ch \in ops THEN Tok(ch, rest)
             ELSE IF ch = op_star
                  THEN IF Len(rest) > 0 /\ rest[1] = "*"
                       THEN Tok(ch \o op_star, Tail(rest))
                       ELSE Tok(ch, rest)
             ELSE IF ch \in NUMBERS THEN get_numbers(ch, rest)
             ELSE IF ch \in LETTERS THEN get_letters(ch, rest)
             ELSE TokThrow(rest)

(* ------------------------- Factors operators --------------------------- *)
zero == Zero

(* outcome of a Factors operator: the object after the call, or the        *)
(* exception thrown with the object as it was left                         *)
Done(f) == [err |-> "", f |-> f]

Raise(e, f) == [err |-> e, f |-> f]

MulAssignUnguarded(this, other) ==
    Done([this EXCEPT
            !.multiplier = FracMul(@, other.multiplier),
            !.m = RatAdd(@, other.m),
            !.kg = RatAdd(@, other.kg),
            !.s = RatAdd(@, other.s),
            !.A = RatAdd(@, other.A),
            !.K = RatAdd(@, other.K),
            !.mol = RatAdd(@, other.mol),
            !.cd = RatAdd(@, other.cd)])

MulAssign(this, other) ==
    IF this.offset # Zero /\ other.offset # zero
    THEN Raise("FactorsError", this)
    ELSE Done([this EXCEPT
                 !.multiplier = FracMul(@, other.multiplier),
                 !.m = RatAdd(@, other.m),
                 !.kg = RatAdd(@, other.kg),
                 !.s = RatAdd(@, other.s),
                 !.A = RatAdd(@, other.A),
                 !.K = RatAdd(@, other.K),
                 !.mol = RatAdd(@, other.mol),
                 !.cd = RatAdd(@, other.cd)])

(* cpp_rational division by zero throws std::overflow_error *)
DivAssign(this, other) ==
    IF this.offset # zero /\ other.offset # zero
    THEN Raise("FactorsError", this)
    ELSE IF other.multiplier = Zero THEN Raise("overflow_error", this)
    ELSE Done([this EXCEPT
                 !.multiplier = FracDiv(@, other.multiplier),
                 !.m = RatSub(@, other.m),
                 !.kg = RatSub(@, other.kg),
                 !.s = RatSub(@, other.s),
                 !.A = RatSub(@, other.A),
                 !.mol = RatSub(@, other.mol),
                 !.cd = RatSub(@, other.cd)])

Negate(this) == [this EXCEPT !.multiplier = FracMul(@, FracNeg(One))]

pow(this, f) ==
    IF this.offset # zero THEN Raise("FactorsError", this)
    ELSE LET exponent == FracToRat(f.multiplier)
         IN  Done([this EXCEPT
                     !.multiplier = FloatPow(@, exponent),
                     !.m = RatMul(@, exponent),
                     !.kg = RatMul(@, exponent),
                     !.s = RatMul(@, exponent),
                     !.A = RatMul(@, exponent),
                     !.mol = RatMul(@, exponent),
                     !.cd = RatMul(@, exponent)])

(* ------------------------------ state ---------------------------------- *)
\* the keys that std::map::operator[] has added to SIUNITS
VARIABLE inserted
\* Parser::ts, the expression left in the stream
VARIABLE ts
\* the argument of the last parse call
VARIABLE units
\* what the last parse call returned or threw
VARIABLE ret
\* the Factors operators the last parse call applied, in order
VARIABLE applied
\* number of parse calls made so far
VARIABLE ncalls

vars == <<inserted, ts, units, ret, applied, ncalls>>

\* map<string, Factors> SIUNITS after operator[] has added the keys of ins
SIUNITS_with(ins) == [k \in ins \ DOMAIN SIUNITS0 |-> Factors0] @@ SIUNITS0

SIUNITS == SIUNITS_with(inserted)

(* ------------------------------ Parser --------------------------------- *)
(* The parser functions run on a record st of what they read and write:    *)
(* st.ts is Parser::ts, st.ins the keys added to SIUNITS, st.log lists the *)
(* operator calls made so far.  Each returns its Factors, or the exception it throws, and *)
(* st as the call left it.                                                 *)
Return(f, st) == [err |-> "", f |-> f, st |-> st]

Throw(e, st) == [err |-> e, f |-> Factors0, st |-> st]

Took(g, st) == [st EXCEPT !.ts = g.expression]

Logged(op, a, b, o, st) ==
    [st EXCEPT !.log = Append(@, [op |-> op, a |-> a, b |-> b,
                                  r |-> o.f, err |-> o.err])]

RECURSIVE get_expression(_), expression_loop(_, _, _), get_term(_),
          term_loop(_, _, _), get_unit(_), get_numberterm(_, _),
          numberterm_loop(_, _, _, _), get_number(_)

(* r is what a callee returned: its exception propagates, else f follows *)
\* t = ts.get() at the end of a loop body, then the loop condition
numberterm_next(f, g, st, inpar) ==
    IF g.err # "" THEN Throw(g.err, Took(g, st))
    ELSE numberterm_loop(f, g.t, Took(g, st), inpar)

\* f /= get_number() or f *= get_number(), o is what the operator did
numberterm_applied(o, st, inpar) ==
    IF o.err # "" THEN Throw(o.err, st)
    ELSE numberterm_next(o.f, get(st.ts), st, inpar)

numberterm_apply(f, t, r, inpar) ==
    IF r.err # "" THEN r
    ELSE IF t = <<"/">>
    THEN numberterm_applied(DivAssign(f, r.f),
                            Logged("/=", f, r.f, DivAssign(f, r.f), r.st),
                            inpar)
    ELSE numberterm_applied(MulAssign(f, r.f),
                            Logged("*=", f, r.f, MulAssign(f, r.f), r.st),
                            inpar)

numberterm_loop(f, t, st, inpar) ==
    IF inpar /\ t \in {<<"/">>, <<"*">>}
    THEN numberterm_apply(f, t, get_number(st), inpar)
    ELSE Return(f, [st EXCEPT !.ts = putback(t, @)])

\* Factors f{get_number()}; Token t{ts.get()};
numberterm_first(r, inpar) ==
    IF r.err # "" THEN r
    ELSE numberterm_next(r.f, get(r.st.ts), r.st, inpar)

get_numberterm(st, inpar) == numberterm_first(get_number(st), inpar)

\* t = ts.get(); if (t != ")") throw TokenError(); return f;
closing(r, g) ==
    IF g.err # "" THEN Throw(g.err, Took(g, r.st))
    ELSE IF g.t # <<")">> THEN Throw("TokenError", Took(g, r.st))
    ELSE Return(r.f, Took(g, r.st))

parenthesized(r) == IF r.err # "" THEN r ELSE closing(r, get(r.st.ts))

\* return (-get_number());
negated(r) == IF r.err # "" THEN r ELSE Return(Negate(r.f), r.st)

number_of(g, st) ==
    IF g.err # "" THEN Throw(g.err, st)
    ELSE IF g.t = <<"(">> THEN parenthesized(get_numberterm(st, TRUE))
    ELSE IF isdecimal(g.t)
    THEN Return([Factors0 EXCEPT !.multiplier = FractionOfString(g.t)], st)
    ELSE IF g.t = <<"-">> THEN negated(get_number(st))
    ELSE IF g.t = <<"+">> THEN get_number(st)
    ELSE Throw("TokenError", st)

get_number(st) == number_of(get(st.ts), Took(get(st.ts), st))

\* f = SIUNITS[suffix]; multiplier *= PREFIXES[prefix]; std::map::operator[]
\* inserts a default Factors under a key that is not in the map
prefixed(prefix, suffix, st) ==
    Return([SIUNITS_with(st.ins \cup {suffix})[suffix] EXCEPT
              !.multiplier = FracMul(@, PREFIXES[prefix])],
           [st EXCEPT !.ins = (@ \cup {suffix}) \ DOMAIN SIUNITS0])

unit_of(t, prefixlen, st) ==
    IF t \in DOMAIN NONSIUNITS THEN Return(NONSIUNITS[t], st)
    ELSE IF t \in DOMAIN SIUNITS_with(st.ins)
    THEN Return(SIUNITS_with(st.ins)[t], st)
    ELSE IF substr0(t, prefixlen) \in DOMAIN PREFIXES
    THEN prefixed(substr0(t, prefixlen), substr(t, prefixlen), st)
    ELSE IF t = <<"(">> THEN parenthesized(get_expression(st))
    ELSE Throw("TokenError", st)

unit_token(g, st) ==
    IF g.err # "" THEN Throw(g.err, st)
    ELSE unit_of(g.t, IF startswith(g.t, <<"d", "a">>) THEN 2 ELSE 1, st)

get_unit(st) == unit_token(get(st.ts), Took(get(st.ts), st))

term_next(f, g, st) ==
    IF g.err # "" THEN Throw(g.err, Took(g, st))
    ELSE term_loop(f, g.t, Took(g, st))

\* f = f.pow(get_numberterm()), o is what pow did
term_applied(o, st) ==
    IF o.err # "" THEN Throw(o.err, st)
    ELSE term_next(o.f, get(st.ts), st)

term_apply(f, r) ==
    IF r.err # "" THEN r
    ELSE term_applied(pow(f, r.f), Logged("pow", f, r.f, pow(f, r.f), r.st))

term_loop(f, t, st) ==
    IF t = <<"*", "*">> THEN term_apply(f, get_numberterm(st, FALSE))
    ELSE Return(f, [st EXCEPT !.ts = putback(t, @)])

\* Factors f{get_unit()}; Token t{ts.get()};
term_first(r) ==
    IF r.err # "" THEN r ELSE term_next(r.f, get(r.st.ts), r.st)

get_term(st) == term_first(get_unit(st))

expression_next(f, g, st) ==
    IF g.err # "" THEN Throw(g.err, Took(g, st))
    ELSE expression_loop(f, g.t, Took(g, st))

\* f *= get_term() or f /= get_term(), o is what the operator did
expression_applied(o, st) ==
    IF o.err # "" THEN Throw(o.err, st)
    ELSE expression_next(o.f, get(st.ts), st)

expression_apply(f, t, r) ==
    IF r.err # "" THEN r
    ELSE IF t = <<"*">>
    THEN expression_applied(MulAssign(f, r.f),
                            Logged("*=", f, r.f, MulAssign(f, r.f), r.st))
    ELSE expression_applied(DivAssign(f, r.f),
                            Logged("/=", f, r.f, DivAssign(f, r.f), r.st))

expression_loop(f, t, st) ==
    IF t \in {<<"*">>, <<"/">>} THEN expression_apply(f, t, get_term(st))
    ELSE IF t = empty_token THEN Return(f, st)
    ELSE Return(f, [st EXCEPT !.ts = putback(t, @)])

\* Factors f{get_term()}; Token t{ts.get()};
expression_first(r) ==
    IF r.err # "" THEN r ELSE expression_next(r.f, get(r.st.ts), r.st)

get_expression(st) == expression_first(get_term(st))

(* Parser::parse on text x when the keys of ins have been added to SIUNITS *)
Run(x, ins) == get_expression([ts |-> x, ins |-> ins, log |-> <<>>])

(* what the caller of parse gets: a Factors, or one exception and no Factors *)
Outcome(r) == [err |-> r.err, f |-> r.f]

(* ------------------------------ inputs --------------------------------- *)
RegistryUnits == DOMAIN SIUNITS0 \cup DOMAIN NONSIUNITS

Prefixable == {<<"m">>, <<"J">>}

PrefixedUnits == {p \o u : p \in DOMAIN PREFIXES, u \in Prefixable}

OtherIdentifiers ==
    {<<"x", "y", "z">>, <<"k", "x", "y", "z">>, <<"k">>, <<"q">>,
     <<"d", "a", "x", "y", "z">>}

Operands == {<<"m">>, <<"K">>, <<"d", "e", "g", "C">>}

Operators == {<<"*">>, <<"/">>}

Pairs == {a \o o \o b : a \in Operands, o \in Operators, b \in Operands}

Triples ==
    {a \o <<"*">> \o b \o <<"*">> \o c :
       a \in {<<"m">>, <<"d", "e", "g", "C">>},
       b \in {<<"m">>, <<"d", "e", "g", "C">>},
       c \in {<<"m">>, <<"d", "e", "g", "C">>}}

SelfQuotients ==
    {u \o <<"/">> \o u :
       u \in {<<"g">>, <<"h">>, <<"J">>, <<"k", "m">>, <<"m", "i">>,
              <<"d", "e", "g", "F">>, <<"d", "e", "g", "R">>}}

Bases ==
    {<<"m">>, <<"K">>, <<"d", "e", "g", "C">>,
     <<"(", "k", "m", "/", "h", ")">>}

Exponents ==
    {<<"2">>, <<"-", "2">>, <<"1", "0", "0">>,
     <<"(", "1", "/", "2", ")">>, <<"(", "2", "*", "3", ")">>,
     <<"(", "1", "/", "0", ")">>, <<"2", "*", "*", "3">>}

Powers == {b \o <<"*", "*">> \o e : b \in Bases, e \in Exponents}

Trailing ==
    {<<"m">> \o r : r \in {<<")">>, <<"+", "s">>, <<"-", "s">>, <<"2">>,
                           <<")", "x", "y", "z">>, <<" ", "s">>}}

Others ==
    {<<>>, <<"(", "m">>, <<"m", "*">>,
     <<"k", "g", "*", "m", "/", "s", "*", "*", "2">>,
     <<"(", "(", "m", "/", "s", ")", "/", "s", ")">>}

Inputs ==
    RegistryUnits \cup PrefixedUnits \cup OtherIdentifiers \cup Pairs
    \cup Triples \cup SelfQuotients \cup Powers \cup Trailing \cup Others

(* --------------------------- the program ------------------------------- *)
NoCall == [err |-> "none", f |-> Factors0]

Init ==
    /\ inserted = {}
    /\ ts = <<>>
    /\ units = <<>>
    /\ ret = NoCall
    /\ applied = <<>>
    /\ ncalls = 0

(* Factors Parser::parse(const std::string &units), called with x *)
parse(x) ==
    /\ ncalls < MaxCalls
    /\ LET r == Run(x, inserted)
       IN  /\ ts' = r.st.ts
           /\ inserted' = r.st.ins
           /\ ret' = Outcome(r)
           /\ applied' = r.st.log
    /\ units' = x
    /\ ncalls' = ncalls + 1

Next == \E x \in Inputs : parse(x)

Spec == Init /\ [][Next]_vars

(* ------------------------- vocabulary of the claims -------------------- *)
Called == ncalls > 0

Dims == {"m", "kg", "s", "A", "K", "mol", "cd"}

Returned(f) == [err |-> "", f |-> f]

\* both operands of a product or quotient, or the base of a power, carry
\* a nonzero offset
OffsetConflict(e) ==
    \/ e.op \in {"*=", "/="} /\ e.a.offset # Zero /\ e.b.offset # Zero
    \/ e.op = "pow" /\ e.a.offset # Zero

\* an identifier: one or more letters of the tokenizer's alphabet
IsIdentifier(x) == Len(x) > 0 /\ \A i \in 1..Len(x) : <<x[i]>> \in LETTERS

\* x is a unit name, or a prefix followed by an SI unit name, of the tables
\* as they are at process start
Resolvable(x) ==
    \/ x \in DOMAIN NONSIUNITS
    \/ x \in DOMAIN SIUNITS0
    \/ \E p \in DOMAIN PREFIXES :
         /\ Len(p) <= Len(x)
         /\ SubSeq(x, 1, Len(p)) = p
         /\ SubSeq(x, Len(p) + 1, Len(x)) \in DOMAIN SIUNITS0

(* C1: an identifier that is neither a unit name of a table nor a prefix   *)
(* followed by an SI unit name makes parse fail with TokenError and return *)
(* no Factors.                                                             *)
C1_UnknownIdentifierFails ==
    (Called /\ IsIdentifier(units) /\ ~Resolvable(units))
        => ret = [err |-> "TokenError", f |-> Factors0]

(* C2: whenever parse applies * or / to two operands that both carry a     *)
(* nonzero offset, or ** to a base that carries a nonzero offset, the call *)
(* fails with FactorsError and returns no Factors.                         *)
C2_OffsetConflictFails ==
    \A i \in DOMAIN applied :
        OffsetConflict(applied[i])
            => ret = [err |-> "FactorsError", f |-> Factors0]

C2_Witness ==
    /\ Called
    /\ \E i \in DOMAIN applied : OffsetConflict(applied[i])
    /\ ret.err = "FactorsError"

(* C3: a division that passes the offset guard yields the quotient of the  *)
(* multipliers and, in each of the seven dimensions, the difference of the *)
(* exponents; u/u of a registry unit u with zero offset yields multiplier  *)
(* 1, offset 0 and all exponents 0.                                        *)
C3_DivisionSubtractsExponents ==
    /\ \A i \in DOMAIN applied :
         LET e == applied[i]
         IN  (e.op = "/=" /\ e.err = "")
                 => /\ e.r.multiplier = FracDiv(e.a.multiplier, e.b.multiplier)
                    /\ \A d \in Dims : e.r[d] = RatSub(e.a[d], e.b[d])
    /\ \A u \in RegistryUnits :
         LET f == (NONSIUNITS @@ SIUNITS0)[u]
         IN  (Called /\ units = u \o <<"/">> \o u /\ f.offset = Zero)
                 => ret = Returned(Factors0)

(* C4: pow of a base with zero offset multiplies each of the seven         *)
(* dimension exponents of the base by the exponent.                        *)
C4_PowScalesExponents ==
    \A i \in DOMAIN applied :
        LET e == applied[i]
        IN  (e.op = "pow" /\ e.err = "")
                => \A d \in Dims :
                       e.r[d] = RatMul(e.a[d], FracToRat(e.b.multiplier))

(* C5: parse returns a Factors only if the grammar consumed the whole      *)
(* input text.                                                             *)
C5_ReturnsOnlyWhenAllConsumed == (Called /\ ret.err = "") => ts = <<>>

(* C6: the outcome of parse(x) after any earlier parse calls is the        *)
(* outcome of parse(x) made as the first call of the process.              *)
C6_OutcomeAsFirstCall == Called => ret = Outcome(Run(units, {}))

(* C7: after any sequence of parse calls each table has the keys and the   *)
(* values it had at process start (NONSIUNITS and PREFIXES are never       *)
(* written, so the SI table decides it).                                   *)
C7_RegistryUnchanged == SIUNITS = SIUNITS0

(* C8: parse of a key of the non-SI table returns that table's Factors,    *)
(* and parse of any other key of the SI table returns the SI table's       *)
(* Factors.                                                                *)
C8_RegisteredNameResolves ==
    /\ (Called /\ units \in DOMAIN NONSIUNITS)
           => ret = Returned(NONSIUNITS[units])
    /\ (Called /\ units \in DOMAIN SIUNITS0 \ DOMAIN NONSIUNITS)
           => ret = Returned(SIUNITS0[units])

(* C9: for a prefix p and an SI unit name u whose concatenation is not     *)
(* itself a unit name, parse(p+u) returns u's Factors with the multiplier  *)
(* multiplied by the scale of p.                                           *)
C9_PrefixScalesUnit ==
    \A p \in DOMAIN PREFIXES : \A u \in DOMAIN SIUNITS0 :
        (Called /\ units = p \o u /\ p \o u \notin RegistryUnits)
            => ret = Returned([SIUNITS0[u] EXCEPT
                                 !.multiplier = FracMul(PREFIXES[p], @)])

(* C10: parse of a product of two or three registry units has the same     *)
(* outcome in every order of the units.                                    *)
C10_ProductOrderIndependent ==
    /\ \A a, b \in RegistryUnits :
         (Called /\ units = a \o <<"*">> \o b)
             => ret = Outcome(Run(b \o <<"*">> \o a, inserted))
    /\ \A a, b, c \in Operands :
         (Called /\ units = a \o <<"*">> \o b \o <<"*">> \o c)
             => \A v \in {a \o <<"*">> \o c \o <<"*">> \o b,
                          b \o <<"*">> \o a \o <<"*">> \o c,
                          b \o <<"*">> \o c \o <<"*">> \o a,
                          c \o <<"*">> \o a \o <<"*">> \o b,
                          c \o <<"*">> \o b \o <<"*">> \o a} :
                    ret = Outcome(Run(v, inserted))
====
